---- MODULE Spec2Model ----
(***************************************************************************)
(* A model of package health (health.go): the Registry of named Checkers   *)
(* guarded by a sync.RWMutex, the mutex-guarded updater, the periodic      *)
(* wrapper with its background goroutine, and the HTTP StatusHandler.      *)
(*                                                                         *)
(* Every goroutine is an agent with a program counter.  A step of an       *)
(* agent is one statement of the code between two synchronisation points.  *)
(* Variables whose comment says "history" record what happened and are     *)
(* read by no action.                                                      *)
(***************************************************************************)
EXTENDS Integers, Sequences, FiniteSets, TLC

\* ------------------------------------------------------------------ bounds
NumThreads == 2          \* goroutines calling into the package
NumNames == 2            \* check names the callers register under
MaxCalls == 3            \* calls of the package's API begun in one run
MaxFairCalls == 2        \* the same, in the runs checked for termination

\* ------------------------------------------------------------- value sets
ThreadName == <<"t1", "t2", "t3", "t4">>
Threads == {ThreadName[i] : i \in 1..NumThreads}

\* The names in the order encoding/json writes map keys (sorted).
NameSeq == <<"a", "b", "c", "d">>
Names == {NameSeq[i] : i \in 1..NumNames}

\* Result{Error, Message}: Error is nil or an error value.
NilError == "nil"
Errors == {NilError, "err"}
Messages == {"", "disk full"}
Results == [err : Errors, msg : Messages]

\* The zero value of Result: what &updater{} holds.
ZeroResult == [err |-> NilError, msg |-> ""]

\* CheckFunc values.  A CheckFunc is an arbitrary function: the model holds
\* one that returns, with a Result that may differ from call to call, and one
\* that panics.
CheckFuncs == {"fn", "fnPanic"}
Returns(r) == [panics |-> FALSE, res |-> r]
Panics == [panics |-> TRUE, res |-> ZeroResult]
FuncOutcomes(f) ==
    IF f = "fnPanic" THEN {Panics} ELSE {Returns(r) : r \in Results}

\* updater objects: one made by NewStatusUpdater for the callers, and one
\* inside each periodic wrapper (named after the wrapper).
StatusUpdaters == {"u1"}
Periodics == {"p1"}
Updaters == StatusUpdaters \cup Periodics

\* What Register may be given.
Checkers == CheckFuncs \cup Updaters

Agents == Threads \cup Periodics

NoEntry == "<absent>"     \* the map has no slot for the key
NilChecker == "<nil>"     \* a slot whose value is the zero Checker (nil)
Free == "<free>"          \* a sync.Mutex nobody holds
NoWriter == "<none>"      \* no writer holds or waits for the RWMutex

Methods == {"GET", "POST"}

\* ------------------------------------------------------------------- state
VARIABLES
    registeredChecks,  \* Registry.registeredChecks: name -> Checker or NoEntry
    muWriter,          \* Registry.mu: the writer holding or waiting for it
    muReaders,         \* Registry.mu: the goroutines holding it for reading
    uStatus,           \* updater.status of every updater
    uMu,               \* updater.mu of every updater: its holder, or Free
    ag,                \* every goroutine: where it is and its local variables
    tickC,             \* the ticker channel t.C of a wrapper holds a tick
    wrapped,           \* the check a wrapper's goroutine captured, or NoEntry
    calls,             \* API calls begun so far (bounded by MaxCalls)
    registered,        \* history: names whose Register returned normally
    nRegistered,       \* history: how many Register calls returned normally
    lastStored,        \* history: per updater, the Result last fully written
    lastWriter,        \* history: per updater, the goroutine that wrote it
    lastOut,           \* history: per wrapper, <<the last output of its check>>
    ticked             \* history: per wrapper, a tick has been delivered

vars == <<registeredChecks, muWriter, muReaders, uStatus, uMu, ag, tickC,
          wrapped, calls, registered, nRegistered, lastStored, lastWriter,
          lastOut, ticked>>

registryVars == <<registeredChecks, muWriter, muReaders, registered, nRegistered>>
updaterVars == <<uStatus, uMu, lastStored, lastWriter>>
periodicVars == <<tickC, wrapped, lastOut, ticked>>

\* An http.ResponseWriter nothing was written to.
NoResponse == [written |-> FALSE, code |-> 0, contentType |-> "",
               contentLength |-> 0, body |-> ""]

\* A goroutine that is in no call.
IdleAgent == [pc |-> "idle", op |-> "", name |-> "", check |-> "", method |-> "",
              u |-> "", arg |-> ZeroResult, res |-> ZeroResult, cur |-> "",
              checks |-> <<>>, called |-> <<>>, resp |-> NoResponse, prev |-> <<>>,
              afterTick |-> FALSE, recovered |-> FALSE, status |-> 0,
              enc |-> <<>>]

\* A goroutine can begin a call when it is in none: it has made no call yet,
\* its last call has returned, or it has recovered from its last call's panic.
Ready == {"idle", "done", "panicked"}

\* The goroutine of a periodic wrapper before `go func()` has run.
UnstartedTask == [IdleAgent EXCEPT !.pc = "unstarted", !.op = "periodic"]

Init ==
    /\ registeredChecks = [n \in Names |-> NoEntry]
    /\ muWriter = NoWriter
    /\ muReaders = {}
    /\ uStatus = [u \in Updaters |-> ZeroResult]
    /\ uMu = [u \in Updaters |-> Free]
    /\ ag = [a \in Agents |-> IF a \in Threads THEN IdleAgent ELSE UnstartedTask]
    /\ tickC = [p \in Periodics |-> FALSE]
    /\ wrapped = [p \in Periodics |-> NoEntry]
    /\ calls = 0
    /\ registered = {}
    /\ nRegistered = 0
    /\ lastStored = [u \in Updaters |-> ZeroResult]
    /\ lastWriter = [u \in Updaters |-> NoWriter]
    /\ lastOut = [p \in Periodics |-> <<>>]
    /\ ticked = [p \in Periodics |-> FALSE]

\* The keys the map holds (a slot exists, whatever its value).
Keys == {n \in Names : registeredChecks[n] # NoEntry}

\* f with key k set to v.
Put(f, k, v) == [x \in DOMAIN f \cup {k} |-> IF x = k THEN v ELSE f[x]]

\* ----------------------------------------------------------------- updater
\* The operations that read an updater (its Check) and those that write it
\* (its Update), by the operation the goroutine is in.
Reads(a) == ag[a].op \in {"Check", "CheckStatus", "StatusHandler"}

\* Where the goroutine goes on when Check or Update has returned.
AfterUpdater(a) ==
    CASE ag[a].op \in {"CheckStatus", "StatusHandler"} -> "cs_store"
      [] ag[a].op = "periodic" -> "recv"
      [] OTHER -> "done"

\* Check and Update without the mutex.
ULockNoWait(a) ==
    /\ ag[a].pc = "u_lock"
    /\ uMu' = [uMu EXCEPT ![ag[a].u] = a]
    /\ ag' = [ag EXCEPT ![a].pc = IF Reads(a) THEN "u_read_err" ELSE "u_write_err"]
    /\ UNCHANGED <<registryVars, uStatus, lastStored, lastWriter, periodicVars,
                   calls>>

\* u.mu.Lock() of Check and of Update: blocks while another holds the mutex.
ULock(a) ==
    /\ ag[a].pc = "u_lock"
    /\ uMu[ag[a].u] = Free
    /\ uMu' = [uMu EXCEPT ![ag[a].u] = a]
    /\ ag' = [ag EXCEPT ![a].pc = IF Reads(a) THEN "u_read_err" ELSE "u_write_err"]
    /\ UNCHANGED <<registryVars, uStatus, lastStored, lastWriter, periodicVars,
                   calls>>

\* `return u.status` copies the struct field by field: first Error ...
UReadErr(a) ==
    /\ ag[a].pc = "u_read_err"
    /\ ag' = [ag EXCEPT ![a].res.err = uStatus[ag[a].u].err, ![a].pc = "u_read_msg"]
    /\ UNCHANGED <<registryVars, updaterVars, periodicVars, calls>>

\* ... then Message.
UReadMsg(a) ==
    /\ ag[a].pc = "u_read_msg"
    /\ ag' = [ag EXCEPT ![a].res.msg = uStatus[ag[a].u].msg, ![a].pc = "u_unlock"]
    /\ UNCHANGED <<registryVars, updaterVars, periodicVars, calls>>

\* `u.status = status` writes the struct field by field: first Error ...
UWriteErr(a) ==
    /\ ag[a].pc = "u_write_err"
    /\ uStatus' = [uStatus EXCEPT ![ag[a].u].err = ag[a].arg.err]
    /\ ag' = [ag EXCEPT ![a].pc = "u_write_msg"]
    /\ UNCHANGED <<registryVars, uMu, lastStored, lastWriter, periodicVars,
                   calls>>

\* An Update that leaves the stored Message as it was.
UWriteMsgForgotten(a) ==
    /\ ag[a].pc = "u_write_msg"
    /\ lastStored' = [lastStored EXCEPT ![ag[a].u] = ag[a].arg]
    /\ lastWriter' = [lastWriter EXCEPT ![ag[a].u] = a]
    /\ ag' = [ag EXCEPT ![a].pc = "u_unlock"]
    /\ UNCHANGED <<registryVars, uStatus, uMu, periodicVars, calls>>

\* ... then Message, which completes the write.
UWriteMsg(a) ==
    /\ ag[a].pc = "u_write_msg"
    /\ uStatus' = [uStatus EXCEPT ![ag[a].u].msg = ag[a].arg.msg]
    /\ lastStored' = [lastStored EXCEPT ![ag[a].u] = ag[a].arg]
    /\ lastWriter' = [lastWriter EXCEPT ![ag[a].u] = a]
    /\ ag' = [ag EXCEPT ![a].pc = "u_unlock"]
    /\ UNCHANGED <<registryVars, uMu, periodicVars, calls>>

\* A return from Check or Update that leaves the mutex locked.
UUnlockForgotten(a) ==
    /\ ag[a].pc = "u_unlock"
    /\ ag' = [ag EXCEPT ![a].pc = AfterUpdater(a)]
    /\ UNCHANGED <<registryVars, updaterVars, periodicVars, calls>>

\* The deferred u.mu.Unlock(), and the return to the caller.
UUnlock(a) ==
    /\ ag[a].pc = "u_unlock"
    /\ uMu' = [uMu EXCEPT ![ag[a].u] = Free]
    /\ ag' = [ag EXCEPT ![a].pc = AfterUpdater(a)]
    /\ UNCHANGED <<registryVars, uStatus, lastStored, lastWriter, periodicVars, calls>>

\* (The fields prev, afterTick and recovered of a goroutine are history: prev
\* is what JustUpdated says as a Check begins, afterTick whether the wrapper
\* whose Check begins has had a tick, recovered what Recovered says as a
\* Register or a CheckStatus begins.)
\* history: <<[u, arg]>> when the call the goroutine just returned from is
\* u.Update(arg), else <<>>.
JustUpdated(t) ==
    IF ag[t].pc = "done" /\ ag[t].op = "Update"
    THEN <<[u |-> ag[t].u, arg |-> ag[t].arg]>>
    ELSE <<>>

\* A caller begins u.Update(status) on an updater it made with NewStatusUpdater.
CallUpdate(t) ==
    /\ ag[t].pc \in Ready
    /\ calls < MaxCalls
    /\ calls' = calls + 1
    /\ \E u \in StatusUpdaters, r \in Results :
          ag' = [ag EXCEPT ![t] = [IdleAgent EXCEPT !.pc = "u_lock", !.op = "Update",
                                                    !.u = u, !.arg = r]]
    /\ UNCHANGED <<registryVars, updaterVars, periodicVars>>

\* The checkers a caller can name: a periodic wrapper only once
\* PeriodicChecker has returned it.  (The wrapper RegisterPeriodicFunc makes
\* is handed to Register and to nobody else; its goroutine's record keeps the
\* name it was made for.)
Known(c) == c \in Periodics => ag[c].pc # "unstarted" /\ ag[c].name = ""

\* A caller begins Check() on an updater: its own, or the Checker that
\* PeriodicChecker returned.
CallCheck(t) ==
    /\ ag[t].pc \in Ready
    /\ calls < MaxCalls
    /\ calls' = calls + 1
    /\ \E u \in Updaters :
          /\ Known(u)
          /\ ag' = [ag EXCEPT ![t] = [IdleAgent EXCEPT !.pc = "u_lock", !.op = "Check",
                                           !.u = u, !.prev = JustUpdated(t),
                                           !.afterTick = u \in Periodics /\ ticked[u]]]
    /\ UNCHANGED <<registryVars, updaterVars, periodicVars>>

\* ------------------------------------------------------------ HTTP surface
\* The HealthCheck values.
HealthChecks == [healthy : BOOLEAN, message : Messages]

StatusOK == 200
StatusNotFound == 404
StatusInternalServerError == 500
StatusServiceUnavailable == 503

\* The keys of a map in the order json.Marshal writes them.
SortedKeys(checks) == SelectSeq(NameSeq, LAMBDA n : n \in DOMAIN checks)

\* One "name":{"healthy":..,"message":".."} member of the JSON object.
JsonMember(k, hc) ==
    "\"" \o k \o "\":{\"healthy\":" \o (IF hc.healthy THEN "true" ELSE "false")
         \o ",\"message\":\"" \o hc.message \o "\"}"

RECURSIVE JsonMembers(_, _)
JsonMembers(keys, checks) ==
    IF keys = <<>> THEN ""
    ELSE JsonMember(Head(keys), checks[Head(keys)])
         \o (IF Tail(keys) = <<>> THEN "" ELSE ",")
         \o JsonMembers(Tail(keys), checks)

\* json.Marshal(checks), line 212: a map of string to a struct of a bool and
\* a string always encodes, so err is nil.
JsonMarshalStatus(checks) ==
    [err |-> FALSE, p |-> "{" \o JsonMembers(SortedKeys(checks), checks) \o "}"]

\* json.Marshal of the fixed error body, lines 215-219.
JsonMarshalServerError ==
    [err |-> FALSE, p |-> "{\"server_error\":\"Could not parse error message\"}"]

\* What a json.Marshal call that fails returns: no bytes and an error.
MarshalError == [err |-> TRUE, p |-> ""]

\* json.Marshal as statusResponse sees it, a call that returns bytes or an
\* error: the returns the code provides for, line 212 and lines 215-219.
JsonMarshalStatusReturns(checks) == {JsonMarshalStatus(checks), MarshalError}
JsonMarshalServerErrorReturns == {JsonMarshalServerError, MarshalError}

\* Lines 228-233: the headers, the status code and the body are written.
WriteResponse(status, p) ==
    [written |-> TRUE, code |-> status,
     contentType |-> "application/json; charset=utf-8",
     contentLength |-> Len(p), body |-> p]

\* A statusResponse whose fallback keeps the status it was called with.
StatusResponseKeepsStatus(status, first, fallback) ==
    IF first.err
    THEN IF fallback.err
         THEN NoResponse
         ELSE WriteResponse(status, fallback.p)
    ELSE WriteResponse(status, first.p)

\* statusResponse from line 213 on, given what the two json.Marshal calls
\* return: first is that of the Status, fallback that of the error body.
StatusResponseWith(status, first, fallback) ==
    IF first.err
    THEN IF fallback.err
         THEN NoResponse
         ELSE WriteResponse(StatusInternalServerError, fallback.p)
    ELSE WriteResponse(status, first.p)

\* statusResponse(w, r, status, checks), lines 211-234.
statusResponse(status, checks) ==
    StatusResponseWith(status, JsonMarshalStatus(checks), JsonMarshalServerError)

\* http.NotFound(w, r), line 205.
NotFoundResponse ==
    [written |-> TRUE, code |-> StatusNotFound,
     contentType |-> "text/plain; charset=utf-8",
     contentLength |-> 0, body |-> "404 page not found\n"]

\* An isFailing that is set only when every entry is not healthy.
IsFailingAll(checks) == \A k \in DOMAIN checks : ~checks[k].healthy

\* Lines 190-195: isFailing is set when some entry is not healthy.
IsFailing(checks) == \E k \in DOMAIN checks : ~checks[k].healthy

\* Lines 197-201: 503 when failing, else 200.
StatusCode(checks) ==
    IF IsFailing(checks) THEN StatusServiceUnavailable ELSE StatusOK

\* Lines 190-203 of StatusHandler, with the snapshot CheckStatus returned.
StatusHandlerResponse(checks) == statusResponse(StatusCode(checks), checks)

\* ---------------------------------------------------------------- Registry
\* history: the call the goroutine just left is a Register that panicked, and
\* the goroutine has recovered from the panic.
Recovered(t) ==
    ag[t].pc = "panicked" /\ ag[t].op \in {"Register", "RegisterPeriodicFunc"}

\* Register, line 145: registry.mu.Lock() first excludes the other writers and
\* announces the writer, which from then on blocks every new RLock ...
RegisterLock(t) ==
    /\ ag[t].pc = "reg_lock"
    /\ muWriter = NoWriter
    /\ muWriter' = t
    /\ ag' = [ag EXCEPT ![t].pc = "reg_wait"]
    /\ UNCHANGED <<registeredChecks, muReaders, registered, nRegistered,
                   updaterVars, periodicVars, calls>>

\* A Lock that does not wait for the readers.
RegisterWaitNoDrain(t) ==
    /\ ag[t].pc = "reg_wait"
    /\ ag' = [ag EXCEPT ![t].pc = "reg_test"]
    /\ UNCHANGED <<registryVars, updaterVars, periodicVars, calls>>

\* ... and then waits until the readers that hold the lock have released it.
RegisterWait(t) ==
    /\ ag[t].pc = "reg_wait"
    /\ muReaders = {}
    /\ ag' = [ag EXCEPT ![t].pc = "reg_test"]
    /\ UNCHANGED <<registryVars, updaterVars, periodicVars, calls>>

\* A Register that overwrites the checker of a name that is bound.
RegisterTestOverwrites(t) ==
    /\ ag[t].pc = "reg_test"
    /\ registeredChecks' = [registeredChecks EXCEPT ![ag[t].name] = NilChecker]
    /\ ag' = [ag EXCEPT ![t].pc = "reg_store"]
    /\ UNCHANGED <<muWriter, muReaders, registered, nRegistered, updaterVars,
                   periodicVars, calls>>

\* A Register that drops the entry of a bound name as it panics.
RegisterTestRemoves(t) ==
    /\ ag[t].pc = "reg_test"
    /\ IF registeredChecks[ag[t].name] # NoEntry
       THEN /\ muWriter' = NoWriter
            /\ ag' = [ag EXCEPT ![t].pc = "panicked"]
            /\ registeredChecks' = [registeredChecks EXCEPT ![ag[t].name] = NoEntry]
       ELSE /\ registeredChecks' = [registeredChecks EXCEPT ![ag[t].name] = NilChecker]
            /\ ag' = [ag EXCEPT ![t].pc = "reg_store"]
            /\ UNCHANGED muWriter
    /\ UNCHANGED <<muReaders, registered, nRegistered, updaterVars, periodicVars,
                   calls>>

\* A Register whose panic leaves the write lock locked.
RegisterTestKeepsLock(t) ==
    /\ ag[t].pc = "reg_test"
    /\ IF registeredChecks[ag[t].name] # NoEntry
       THEN /\ ag' = [ag EXCEPT ![t].pc = "panicked"]
            /\ UNCHANGED registeredChecks
       ELSE /\ registeredChecks' = [registeredChecks EXCEPT ![ag[t].name] = NilChecker]
            /\ ag' = [ag EXCEPT ![t].pc = "reg_store"]
    /\ UNCHANGED <<muWriter, muReaders, registered, nRegistered, updaterVars,
                   periodicVars, calls>>

\* Lines 147-151: a name that has a slot panics, and the deferred Unlock runs
\* as the panic unwinds; otherwise the map assignment makes the slot for the
\* key, whose value is still the zero Checker.
RegisterTest(t) ==
    /\ ag[t].pc = "reg_test"
    /\ IF registeredChecks[ag[t].name] # NoEntry
       THEN /\ muWriter' = NoWriter
            /\ ag' = [ag EXCEPT ![t].pc = "panicked"]
            /\ UNCHANGED registeredChecks
       ELSE /\ registeredChecks' = [registeredChecks EXCEPT ![ag[t].name] = NilChecker]
            /\ ag' = [ag EXCEPT ![t].pc = "reg_store"]
            /\ UNCHANGED muWriter
    /\ UNCHANGED <<muReaders, registered, nRegistered, updaterVars, periodicVars,
                   calls>>

\* Line 151, completed: the checker is stored in the slot.
RegisterStore(t) ==
    /\ ag[t].pc = "reg_store"
    /\ registeredChecks' = [registeredChecks EXCEPT ![ag[t].name] = ag[t].check]
    /\ ag' = [ag EXCEPT ![t].pc = "reg_unlock"]
    /\ UNCHANGED <<muWriter, muReaders, registered, nRegistered, updaterVars,
                   periodicVars, calls>>

\* The deferred registry.mu.Unlock(), and the normal return.
RegisterUnlock(t) ==
    /\ ag[t].pc = "reg_unlock"
    /\ muWriter' = NoWriter
    /\ registered' = registered \cup {ag[t].name}
    /\ nRegistered' = nRegistered + 1
    /\ ag' = [ag EXCEPT ![t].pc = "done"]
    /\ UNCHANGED <<registeredChecks, muReaders, updaterVars, periodicVars,
                   calls>>

\* A caller begins Register(name, check) (RegisterFunc when check is a
\* CheckFunc); a nil registry stands for DefaultRegistry, the one modelled.
CallRegister(t) ==
    /\ ag[t].pc \in Ready
    /\ calls < MaxCalls
    /\ calls' = calls + 1
    /\ \E n \in Names, c \in Checkers :
          /\ Known(c)
          /\ ag' = [ag EXCEPT ![t] = [IdleAgent EXCEPT !.pc = "reg_lock",
                                   !.op = "Register", !.name = n, !.check = c,
                                   !.recovered = Recovered(t)]]
    /\ UNCHANGED <<registryVars, updaterVars, periodicVars>>

\* A HealthCheck whose Healthy is res.Error != nil.
HealthCheckInverted(res) == [healthy |-> res.err # NilError, message |-> res.msg]

\* HealthCheck{Healthy: res.Error == nil, Message: res.Message}, lines 123-128.
HealthCheck(res) == [healthy |-> res.err = NilError, message |-> res.msg]

\* An RLock that does not mind the writer.
CheckStatusRLockIgnoresWriter(t) ==
    /\ ag[t].pc = "cs_rlock"
    /\ muReaders' = muReaders \cup {t}
    /\ ag' = [ag EXCEPT ![t].pc = "cs_range", ![t].checks = <<>>, ![t].called = <<>>]
    /\ UNCHANGED <<registeredChecks, muWriter, registered, nRegistered,
                   updaterVars, periodicVars, calls>>

\* A CheckStatus that starts from the Status another call has returned
\* instead of a new one.
CheckStatusRLockShared(t) ==
    /\ ag[t].pc = "cs_rlock"
    /\ muWriter = NoWriter
    /\ muReaders' = muReaders \cup {t}
    /\ \E o \in Threads :
          /\ ag[o].pc = "done" \/ o = t
          /\ ag' = [ag EXCEPT ![t].pc = "cs_range",
                              ![t].checks = IF o = t THEN <<>> ELSE ag[o].checks,
                              ![t].called = <<>>]
    /\ UNCHANGED <<registeredChecks, muWriter, registered, nRegistered,
                   updaterVars, periodicVars, calls>>

\* CheckStatus, lines 116-118: registry.mu.RLock() blocks while a writer holds
\* or waits for the lock; status := Status{}.
CheckStatusRLock(t) ==
    /\ ag[t].pc = "cs_rlock"
    /\ muWriter = NoWriter
    /\ muReaders' = muReaders \cup {t}
    /\ ag' = [ag EXCEPT ![t].pc = "cs_range", ![t].checks = <<>>, ![t].called = <<>>]
    /\ UNCHANGED <<registeredChecks, muWriter, registered, nRegistered,
                   updaterVars, periodicVars, calls>>

\* The deferred registry.mu.RUnlock() as a panic unwinds CheckStatus.
CheckStatusPanic(t) ==
    /\ muReaders' = muReaders \ {t}
    /\ ag' = [ag EXCEPT ![t].pc = "panicked"]

\* Lines 123-128: status[k] = HealthCheck{...} for the Result res that the
\* checker v returned; the loop goes on.  (called is history: per key, the
\* checker called, what it returned, and how many times it was called.)
CheckStatusStored(t, k, v, res) ==
    [ag EXCEPT ![t].pc = "cs_range",
               ![t].checks = Put(@, k, HealthCheck(res)),
               ![t].called = Put(@, k, [check |-> v, res |-> res,
                                        n |-> IF k \in DOMAIN @ THEN @[k].n + 1
                                                                ELSE 1])]

\* A range that misses the first key of the map.
UnvisitedSkipsFirst(t) == (Keys \ DOMAIN ag[t].checks) \ {NameSeq[1]}

\* Line 120: the keys the range statement has still to yield.
Unvisited(t) == Keys \ DOMAIN ag[t].checks

\* Lines 120-129, one round of the loop.  The range statement yields a key of
\* the map it has not yielded yet, in no particular order, and ends the loop
\* when there is none.  res := v.Check(): a CheckFunc runs and returns its
\* Result or panics; an updater's Check starts by locking its mutex; a nil
\* Checker is a nil dereference.  Nothing recovers a panic: it unwinds
\* CheckStatus.
CheckStatusRange(t) ==
    /\ ag[t].pc = "cs_range"
    /\ IF Unvisited(t) = {}
       THEN /\ ag' = [ag EXCEPT ![t].pc = "cs_return"]
            /\ UNCHANGED muReaders
       ELSE \E k \in Unvisited(t) :
              LET v == registeredChecks[k] IN
                CASE v \in Updaters ->
                       /\ ag' = [ag EXCEPT ![t].pc = "u_lock", ![t].u = v, ![t].cur = k]
                       /\ UNCHANGED muReaders
                  [] v \in CheckFuncs ->
                       \E o \in FuncOutcomes(v) :
                          IF o.panics
                          THEN CheckStatusPanic(t)
                          ELSE /\ ag' = CheckStatusStored(t, k, v, o.res)
                               /\ UNCHANGED muReaders
                  [] OTHER -> CheckStatusPanic(t)
    /\ UNCHANGED <<registeredChecks, muWriter, registered, nRegistered,
                   updaterVars, periodicVars, calls>>

\* Lines 121-128 when v is an updater: its Check has returned res.
CheckStatusStore(t) ==
    /\ ag[t].pc = "cs_store"
    /\ ag' = CheckStatusStored(t, ag[t].cur, ag[t].u, ag[t].res)
    /\ UNCHANGED <<registryVars, updaterVars, periodicVars, calls>>

\* A CheckStatus that returns without the RUnlock.
CheckStatusReturnKeepsRLock(t) ==
    /\ ag[t].pc = "cs_return"
    /\ ag' = [ag EXCEPT ![t].pc = "done"]
    /\ UNCHANGED <<registryVars, updaterVars, periodicVars, calls>>

\* Line 131 and the deferred RUnlock: the snapshot is returned.  Returned to
\* StatusHandler, lines 190-203 follow: the status code is chosen and
\* statusResponse writes the response.
CheckStatusReturn(t) ==
    /\ ag[t].pc = "cs_return"
    /\ muReaders' = muReaders \ {t}
    /\ ag' = [ag EXCEPT ![t].pc = "done",
                        ![t].resp = IF ag[t].op = "StatusHandler"
                                    THEN StatusHandlerResponse(ag[t].checks)
                                    ELSE NoResponse]
    /\ UNCHANGED <<registeredChecks, muWriter, registered, nRegistered,
                   updaterVars, periodicVars, calls>>

\* history: <<[checks, called]>> of the CheckStatus the goroutine has just
\* returned from, else <<>>.
JustChecked(t) ==
    IF ag[t].pc = "done" /\ ag[t].op = "CheckStatus"
    THEN <<[checks |-> ag[t].checks, called |-> ag[t].called]>>
    ELSE <<>>

\* A caller begins CheckStatus() again, having kept what its last CheckStatus
\* returned (prev, history).
CallCheckStatusAgain(t) ==
    /\ ag[t].pc \in Ready
    /\ calls < MaxCalls
    /\ calls' = calls + 1
    /\ ag' = [ag EXCEPT ![t] = [IdleAgent EXCEPT !.pc = "cs_rlock", !.op = "CheckStatus",
                                              !.recovered = Recovered(t),
                                              !.prev = JustChecked(t)]]
    /\ UNCHANGED <<registryVars, updaterVars, periodicVars>>

\* The caller changes the Status it was returned: it deletes an entry or
\* overwrites one.  The map is the caller's.
MutateSnapshot(t) ==
    /\ ag[t].pc = "done"
    /\ ag[t].op = "CheckStatus"
    /\ \E k \in DOMAIN ag[t].checks :
          \/ ag' = [ag EXCEPT ![t].checks = [x \in DOMAIN @ \ {k} |-> @[x]]]
          \/ \E hc \in HealthChecks \ {ag[t].checks[k]} :
                ag' = [ag EXCEPT ![t].checks[k] = hc]
    /\ UNCHANGED <<registryVars, updaterVars, periodicVars, calls>>

\* A caller begins CheckStatus().
CallCheckStatus(t) ==
    /\ ag[t].pc \in Ready
    /\ calls < MaxCalls
    /\ calls' = calls + 1
    /\ ag' = [ag EXCEPT ![t] = [IdleAgent EXCEPT !.pc = "cs_rlock", !.op = "CheckStatus",
                                              !.recovered = Recovered(t)]]
    /\ UNCHANGED <<registryVars, updaterVars, periodicVars>>

\* ------------------------------------------------------- StatusHandler
\* A StatusHandler that takes the GET branch whatever the method is.
CallStatusHandlerAnyMethod(t) ==
    /\ ag[t].pc \in Ready
    /\ calls < MaxCalls
    /\ calls' = calls + 1
    /\ \E m \in Methods :
          ag' = [ag EXCEPT ![t] = [IdleAgent EXCEPT !.pc = "cs_rlock",
                                   !.op = "StatusHandler", !.method = m]]
    /\ UNCHANGED <<registryVars, updaterVars, periodicVars>>

\* StatusHandler(w, r) begins, line 188: a GET goes on to CheckStatus() of the
\* default registry, any other method is answered by http.NotFound at once.
CallStatusHandler(t) ==
    /\ ag[t].pc \in Ready
    /\ calls < MaxCalls
    /\ calls' = calls + 1
    /\ \E m \in Methods :
          IF m = "GET"
          THEN ag' = [ag EXCEPT ![t] = [IdleAgent EXCEPT !.pc = "cs_rlock",
                                   !.op = "StatusHandler", !.method = m]]
          ELSE ag' = [ag EXCEPT ![t] = [IdleAgent EXCEPT !.pc = "done",
                                   !.op = "StatusHandler", !.method = m,
                                   !.resp = NotFoundResponse]]
    /\ UNCHANGED <<registryVars, updaterVars, periodicVars>>

\* The Status values statusResponse may be given: any mapping of names to
\* HealthChecks.
Statuses == UNION {[ks -> HealthChecks] : ks \in SUBSET Names}

\* statusResponse(w, r, status, checks), lines 211-234, called with a status
\* code StatusHandler computes and a Status, for each way the two
\* json.Marshal calls may return (enc records which of them failed; the
\* fallback is only called when the first has failed).
CallStatusResponse(t) ==
    /\ ag[t].pc \in Ready
    /\ calls < MaxCalls
    /\ calls' = calls + 1
    /\ \E status \in {StatusOK, StatusServiceUnavailable}, checks \in Statuses :
          \E first \in JsonMarshalStatusReturns(checks),
             fallback \in JsonMarshalServerErrorReturns :
             /\ ~first.err => ~fallback.err
             /\ ag' = [ag EXCEPT ![t] =
                          [IdleAgent EXCEPT !.pc = "done", !.op = "statusResponse",
                               !.checks = checks, !.status = status,
                               !.enc = <<first.err, fallback.err>>,
                               !.resp = StatusResponseWith(status, first, fallback)]]
    /\ UNCHANGED <<registryVars, updaterVars, periodicVars>>

\* -------------------------------------------------------- periodic wrapper
\* The functions a caller wraps.  One that panics ends the process from the
\* wrapper's goroutine, after which there is no state to speak of.
PeriodicFuncs == CheckFuncs \ {"fnPanic"}

\* PeriodicChecker(check, period), lines 95-104: the updater is made, the
\* goroutine is started with check in its closure, the updater is returned.
\* The check is not called here.
CallPeriodicChecker(t) ==
    /\ ag[t].pc \in Ready
    /\ calls < MaxCalls
    /\ calls' = calls + 1
    /\ \E p \in Periodics, f \in PeriodicFuncs :
          /\ ag[p].pc = "unstarted"
          /\ wrapped' = [wrapped EXCEPT ![p] = f]
          /\ ag' = [ag EXCEPT ![t] = [IdleAgent EXCEPT !.pc = "done",
                                   !.op = "PeriodicChecker", !.check = p],
                              ![p].pc = "new_ticker", ![p].u = p]
    /\ UNCHANGED <<registryVars, updaterVars, tickC, lastOut, ticked>>

\* A RegisterPeriodicFunc that makes the wrapper only once the name is known
\* to be free: nothing is started as the call begins.
CallRegisterPeriodicFuncLazy(t) ==
    /\ ag[t].pc \in Ready
    /\ calls < MaxCalls
    /\ calls' = calls + 1
    /\ \E n \in Names, p \in Periodics :
          /\ ag[p].pc = "unstarted"
          /\ ag' = [ag EXCEPT ![t] = [IdleAgent EXCEPT !.pc = "reg_lock",
                                   !.op = "RegisterPeriodicFunc", !.name = n,
                                   !.check = p, !.recovered = Recovered(t)]]
    /\ UNCHANGED <<registryVars, updaterVars, periodicVars>>

\* RegisterPeriodicFunc(name, period, check), lines 174-176:
\* registry.Register(name, PeriodicChecker(check, period)).  The argument is
\* evaluated first: PeriodicChecker makes the updater and starts the
\* goroutine; then Register begins with the wrapper as its check.
CallRegisterPeriodicFunc(t) ==
    /\ ag[t].pc \in Ready
    /\ calls < MaxCalls
    /\ calls' = calls + 1
    /\ \E n \in Names, p \in Periodics, f \in PeriodicFuncs :
          /\ ag[p].pc = "unstarted"
          /\ wrapped' = [wrapped EXCEPT ![p] = f]
          /\ ag' = [ag EXCEPT ![t] = [IdleAgent EXCEPT !.pc = "reg_lock",
                                   !.op = "RegisterPeriodicFunc", !.name = n,
                                   !.check = p, !.recovered = Recovered(t)],
                              ![p].pc = "new_ticker", ![p].u = p, ![p].name = n]
    /\ UNCHANGED <<registryVars, updaterVars, tickC, lastOut, ticked>>

\* A goroutine that evaluates the check once before it waits for a tick.
TaskNewTickerEager(p) ==
    /\ ag[p].pc = "new_ticker"
    /\ ag' = [ag EXCEPT ![p].pc = "eval"]
    /\ UNCHANGED <<registryVars, updaterVars, periodicVars, calls>>

\* Line 97: t := time.NewTicker(period); from now on the period runs.
TaskNewTicker(p) ==
    /\ ag[p].pc = "new_ticker"
    /\ ag' = [ag EXCEPT ![p].pc = "recv"]
    /\ UNCHANGED <<registryVars, updaterVars, periodicVars, calls>>

\* A period elapses: the ticker sends on t.C, whose buffer holds one tick.
\* (A tick sent while the buffer is full is dropped and changes nothing.)
Tick(p) ==
    /\ ag[p].pc \notin {"unstarted", "new_ticker"}
    /\ ~tickC[p]
    /\ tickC' = [tickC EXCEPT ![p] = TRUE]
    /\ ticked' = [ticked EXCEPT ![p] = TRUE]
    /\ UNCHANGED <<registryVars, updaterVars, ag, wrapped, lastOut, calls>>

\* A goroutine that locks the updater before it evaluates the check.
TaskRecvLocked(p) ==
    /\ ag[p].pc = "recv"
    /\ tickC[p]
    /\ uMu[p] = Free
    /\ uMu' = [uMu EXCEPT ![p] = p]
    /\ tickC' = [tickC EXCEPT ![p] = FALSE]
    /\ ag' = [ag EXCEPT ![p].pc = "eval"]
    /\ UNCHANGED <<registryVars, uStatus, lastStored, lastWriter, wrapped, lastOut,
                   ticked, calls>>

\* Line 99: <-t.C takes the tick.
TaskRecv(p) ==
    /\ ag[p].pc = "recv"
    /\ tickC[p]
    /\ tickC' = [tickC EXCEPT ![p] = FALSE]
    /\ ag' = [ag EXCEPT ![p].pc = "eval"]
    /\ UNCHANGED <<registryVars, updaterVars, wrapped, lastOut, ticked, calls>>

\* An evaluation whose Result is not the one handed to Update.
TaskEvalStale(p) ==
    /\ ag[p].pc = "eval"
    /\ \E o \in FuncOutcomes(wrapped[p]) :
          /\ ~o.panics
          /\ ag' = [ag EXCEPT ![p].pc = "u_lock"]
          /\ lastOut' = [lastOut EXCEPT ![p] = <<o.res>>]
    /\ UNCHANGED <<registryVars, updaterVars, tickC, wrapped, ticked, calls>>

\* Line 100, the argument: check.Check() returns; u.Update(...) comes next.
TaskEval(p) ==
    /\ ag[p].pc = "eval"
    /\ \E o \in FuncOutcomes(wrapped[p]) :
          /\ ~o.panics
          /\ ag' = [ag EXCEPT ![p].pc = "u_lock", ![p].arg = o.res]
          /\ lastOut' = [lastOut EXCEPT ![p] = <<o.res>>]
    /\ UNCHANGED <<registryVars, updaterVars, tickC, wrapped, ticked, calls>>

\* ---------------------------------------------------------- specifications
\* The steps of an updater's Check.
UpdaterCheckStep(a) == ULock(a) \/ UReadErr(a) \/ UReadMsg(a) \/ UUnlock(a)

\* The steps of an updater's Check and Update.
UpdaterStep(a) == UpdaterCheckStep(a) \/ UWriteErr(a) \/ UWriteMsg(a)

RegistryStep(t) ==
    \/ RegisterLock(t) \/ RegisterWait(t) \/ RegisterTest(t)
    \/ RegisterStore(t) \/ RegisterUnlock(t)
    \/ CheckStatusRLock(t) \/ CheckStatusRange(t)
    \/ CheckStatusStore(t) \/ CheckStatusReturn(t)

TaskStep(p) == TaskNewTicker(p) \/ Tick(p) \/ TaskRecv(p) \/ TaskEval(p)

\* The registry: Register and CheckStatus.
Next ==
    \E t \in Threads :
       \/ CallRegister(t) \/ CallCheckStatus(t)
       \/ RegistryStep(t) \/ UpdaterCheckStep(t)

Spec == Init /\ [][Next]_vars

\* The HTTP handler over the registry.
NextHandler ==
    \E t \in Threads :
       \/ CallRegister(t) \/ CallStatusHandler(t)
       \/ RegistryStep(t) \/ UpdaterCheckStep(t)

SpecHandler == Init /\ [][NextHandler]_vars

\* One updater under concurrent Update and Check calls.
NextUpdater ==
    \E t \in Threads : CallUpdate(t) \/ CallCheck(t) \/ UpdaterStep(t)

SpecUpdater == Init /\ [][NextUpdater]_vars

\* A periodic wrapper, its goroutine, its ticker and the callers of its Check.
NextPeriodic ==
    \/ \E t \in Threads : CallPeriodicChecker(t) \/ CallCheck(t)
    \/ \E a \in Agents : UpdaterStep(a)
    \/ \E p \in Periodics : TaskStep(p)

SpecPeriodic == Init /\ [][NextPeriodic]_vars

\* The steps a goroutine takes inside an updater once it holds the mutex.
UpdaterLockedStep(a) ==
    UReadErr(a) \/ UReadMsg(a) \/ UWriteErr(a) \/ UWriteMsg(a) \/ UUnlock(a)

\* What the Go runtime and the wrapper's environment guarantee.  A goroutine
\* that can run does run (weak fairness of its steps); a goroutine that waits
\* for a sync.Mutex gets it if the mutex keeps being released (the mutex
\* hands over to a starving waiter: strong fairness of ULock); the ticker of
\* a started wrapper keeps firing; the wrapped check returns.
FairPeriodic ==
    /\ \A p \in Periodics :
          /\ WF_vars(TaskNewTicker(p))
          /\ WF_vars(Tick(p))
          /\ WF_vars(TaskRecv(p))
          /\ WF_vars(TaskEval(p))
    /\ \A a \in Agents :
          /\ SF_vars(ULock(a))
          /\ WF_vars(UpdaterLockedStep(a))

\* A periodic wrapper with one goroutine that makes it and calls its Check.
NextWrapper ==
    \/ \E t \in {ThreadName[1]} : CallPeriodicChecker(t) \/ CallCheck(t)
    \/ \E a \in Agents : UpdaterStep(a)
    \/ \E p \in Periodics : TaskStep(p)

SpecPeriodicFair == Init /\ [][NextWrapper]_vars /\ FairPeriodic

\* The registry after u := NewStatusUpdater(); Register(NameSeq[1], u) has
\* returned; calls counts from here on.
InitRegistered ==
    /\ registeredChecks = [n \in Names |-> IF n = NameSeq[1] THEN "u1" ELSE NoEntry]
    /\ muWriter = NoWriter
    /\ muReaders = {}
    /\ uStatus = [u \in Updaters |-> ZeroResult]
    /\ uMu = [u \in Updaters |-> Free]
    /\ ag = [a \in Agents |-> IF a \in Threads THEN IdleAgent ELSE UnstartedTask]
    /\ tickC = [p \in Periodics |-> FALSE]
    /\ wrapped = [p \in Periodics |-> NoEntry]
    /\ calls = 0
    /\ registered = {NameSeq[1]}
    /\ nRegistered = 1
    /\ lastStored = [u \in Updaters |-> ZeroResult]
    /\ lastWriter = [u \in Updaters |-> NoWriter]
    /\ lastOut = [p \in Periodics |-> <<>>]
    /\ ticked = [p \in Periodics |-> FALSE]

\* Two goroutines on that registry: one registers checks and updates the
\* updater, the other calls CheckStatus.
Registrar == ThreadName[1]
Poller == ThreadName[2]

NextRegistryFair ==
    \/ /\ calls < MaxFairCalls
       /\ CallRegister(Registrar) \/ CallUpdate(Registrar) \/ CallCheckStatus(Poller)
    \/ \E t \in {Registrar, Poller} : RegistryStep(t) \/ UpdaterStep(t)

\* The steps of Register and CheckStatus that wait for no lock.  (Lock's wait
\* for the readers to leave is among them: once the writer is announced no
\* reader enters, so the wait can only become and stay possible.)
RegistryLockedStep(t) ==
    \/ RegisterWait(t) \/ RegisterTest(t) \/ RegisterStore(t) \/ RegisterUnlock(t)
    \/ CheckStatusRange(t) \/ CheckStatusStore(t) \/ CheckStatusReturn(t)

\* What the Go runtime guarantees: a goroutine that can run does run, and a
\* goroutine that waits for a sync.Mutex or a sync.RWMutex gets it if the lock
\* keeps being released (both hand over to a waiter that has waited long).
\* That a checker's Check returns is the weak fairness of the steps inside it.
FairRegistry ==
    \A t \in {Registrar, Poller} :
       /\ SF_vars(RegisterLock(t))
       /\ SF_vars(CheckStatusRLock(t))
       /\ SF_vars(ULock(t))
       /\ WF_vars(RegistryLockedStep(t) \/ UpdaterLockedStep(t))

SpecRegistryFair == InitRegistered /\ [][NextRegistryFair]_vars /\ FairRegistry

\* The registry that holds an updater, under CheckStatus calls whose callers
\* keep and change what they were returned, Register calls and Update calls.
CheckStatusStep(t) ==
    \/ CheckStatusRLock(t) \/ CheckStatusRange(t)
    \/ CheckStatusStore(t) \/ CheckStatusReturn(t)

NextSnapshot ==
    \E t \in Threads :
       \/ CallCheckStatusAgain(t) \/ CallUpdate(t) \/ MutateSnapshot(t)
       \/ CheckStatusStep(t) \/ UpdaterStep(t)

SpecSnapshot == InitRegistered /\ [][NextSnapshot]_vars

\* The steps of Register.
RegisterStep(t) ==
    \/ RegisterLock(t) \/ RegisterWait(t) \/ RegisterTest(t)
    \/ RegisterStore(t) \/ RegisterUnlock(t)

\* The steps of an updater's Update.
UpdaterUpdateStep(a) == ULock(a) \/ UWriteErr(a) \/ UWriteMsg(a) \/ UUnlock(a)

\* One goroutine that calls Register and RegisterPeriodicFunc on a registry,
\* and the goroutine of the wrapper that RegisterPeriodicFunc makes.
NextRegisterPeriodic ==
    \/ \E t \in {ThreadName[1]} :
          CallRegister(t) \/ CallRegisterPeriodicFunc(t) \/ RegisterStep(t)
    \/ \E p \in Periodics : TaskStep(p) \/ UpdaterUpdateStep(p)

SpecRegisterPeriodic == Init /\ [][NextRegisterPeriodic]_vars

\* statusResponse alone; it shares nothing, so one goroutine calls it.
NextEncode == \E t \in {ThreadName[1]} : CallStatusResponse(t)

SpecEncode == Init /\ [][NextEncode]_vars

\* ------------------------------------------------------------------ claims
\* The goroutines inside CheckStatus that have built their snapshot and are
\* about to return it, still holding the read lock.
Returning == {t \in Threads : ag[t].pc = "cs_return"}

\* The goroutines inside Register's critical section.
Writing == {t \in Threads : ag[t].pc \in {"reg_test", "reg_store", "reg_unlock"}}

\* C1: a CheckStatus that runs after N Register calls with pairwise distinct
\* names have returned gives a snapshot whose keys are exactly the registered
\* names, N of them.
C1_SnapshotKeysAreRegisteredNames ==
    \A t \in Returning :
       /\ DOMAIN ag[t].checks = registered
       /\ Cardinality(DOMAIN ag[t].checks) = nRegistered

\* C1 happens: a snapshot of two registered names is about to be returned.
C1_Witness ==
    \E t \in Returning : nRegistered = 2 /\ Cardinality(DOMAIN ag[t].checks) = 2

\* C2: Register of a name that is bound panics, and the step that panics
\* leaves the whole mapping as it was (no overwrite, no merge).
C2_DuplicateRegisterPanics ==
    [][\A t \in Threads :
          (/\ ag[t].pc = "reg_test"
           /\ ag'[t].pc # "reg_test"
           /\ registeredChecks[ag[t].name] # NoEntry)
          => (/\ ag'[t].pc = "panicked"
              /\ registeredChecks' = registeredChecks)]_vars

\* C2 happens: Register(name, c2) has panicked where name is bound to another
\* checker c1.
C2_Witness ==
    \E t \in Threads :
       /\ ag[t].pc = "panicked"
       /\ ag[t].op = "Register"
       /\ registeredChecks[ag[t].name] \in Checkers \ {ag[t].check}

\* The GET requests StatusHandler has answered.
Answered == {t \in Threads : /\ ag[t].pc = "done"
                             /\ ag[t].op = "StatusHandler"
                             /\ ag[t].method = "GET"}

\* C3: a GET is answered 503 when some entry of the snapshot is not healthy
\* and 200 otherwise, and it is 503 exactly when a registered checker
\* returned a Result with a non-nil error during the request.
C3_StatusCodeReflectsHealth ==
    \A t \in Answered :
       LET checks == ag[t].checks
           called == ag[t].called
           unhealthy == \E k \in DOMAIN checks : ~checks[k].healthy
           failed == \E k \in DOMAIN called : called[k].res.err # NilError
       IN /\ ag[t].resp.written
          /\ ag[t].resp.code = (IF unhealthy THEN StatusServiceUnavailable ELSE StatusOK)
          /\ (ag[t].resp.code = StatusServiceUnavailable) <=> failed
          /\ checks = <<>> => ag[t].resp.code = StatusOK

\* C3 happens: a GET over a healthy and a failing check has been answered.
C3_Witness ==
    \E t \in Answered :
       /\ \E k \in DOMAIN ag[t].checks : ag[t].checks[k].healthy
       /\ \E k \in DOMAIN ag[t].checks : ~ag[t].checks[k].healthy
       /\ ag[t].resp.code = StatusServiceUnavailable

\* The Register calls in flight: begun and not yet returned or panicked.
Registering ==
    {w \in Threads : ag[w].pc \in {"reg_lock", "reg_wait", "reg_test",
                                   "reg_store", "reg_unlock"}}

\* The names of the mapping before and after the registration w is making.
NamesBefore(w) ==
    IF ag[w].pc \in {"reg_store", "reg_unlock"} THEN Keys \ {ag[w].name} ELSE Keys
NamesAfter(w) == Keys \cup {ag[w].name}

\* C4: a CheckStatus that runs while a Register is in flight never sees a
\* partially inserted entry: no reader holds the lock while a slot has no
\* checker yet or a writer is in its critical section, every snapshot has as
\* keys the names before or the names after that registration, and every
\* key carries the result of the checker bound to it.
C4_RegistrationIsAtomic ==
    /\ muReaders # {} => /\ Writing = {}
                         /\ \A n \in Names : registeredChecks[n] # NilChecker
    /\ \A t \in Returning :
          /\ \A w \in Registering :
                DOMAIN ag[t].checks \in {NamesBefore(w), NamesAfter(w)}
          /\ \A k \in DOMAIN ag[t].checks :
                /\ ag[t].called[k].check = registeredChecks[k]
                /\ ag[t].checks[k] = HealthCheck(ag[t].called[k].res)

\* C4 happens: a snapshot with an entry is about to be returned while a
\* Register of a new name waits for the lock.
C4_Witness ==
    \E t \in Returning, w \in Registering :
       /\ ag[t].checks # <<>>
       /\ ag[w].pc = "reg_wait"
       /\ ag[w].name \notin Keys

\* The goroutines inside the critical section of updater u.
InUpdater(u) ==
    {a \in Agents : /\ ag[a].u = u
                    /\ ag[a].pc \in {"u_read_err", "u_read_msg", "u_write_err",
                                     "u_write_msg", "u_unlock"}}

\* The goroutines whose Check of an updater has read the Result it returns.
Checked == {a \in Agents : ag[a].pc = "u_unlock" /\ Reads(a)}

\* C5: under any interleaving of Update and Check calls on one updater the
\* calls exclude each other, and every Check returns, whole, the initial zero
\* Result or the argument of the Update that last completed its write: never
\* a mix of two Results, never a value that was not stored.
C5_UpdatesAreAtomic ==
    \A u \in Updaters :
       /\ Cardinality(InUpdater(u)) <= 1
       /\ InUpdater(u) \subseteq {uMu[u]}
       /\ uMu[u] = Free => uStatus[u] = lastStored[u]
       /\ \A a \in Checked : ag[a].u = u => ag[a].res = lastStored[u]
       /\ lastWriter[u] = NoWriter => lastStored[u] = ZeroResult

\* C5 happens: a Check has read the Result another goroutine stored, while
\* that goroutine's next Update waits for the mutex.
C5_Witness ==
    \E a \in Checked, b \in Threads :
       /\ a # b
       /\ lastWriter[ag[a].u] = b
       /\ ag[a].res = [err |-> "err", msg |-> "disk full"]
       /\ ag[b].pc = "u_lock"
       /\ ag[b].u = ag[a].u
       /\ ag[b].op = "Update"

\* C9: Update(R) followed at once by Check() of the same goroutine, with no
\* Update by anyone in between, returns exactly R, whatever was stored before.
C9_ReadAfterWrite ==
    \A t \in Threads :
       (/\ t \in Checked
        /\ ag[t].op = "Check"
        /\ ag[t].prev # <<>>
        /\ ag[t].prev[1].u = ag[t].u
        /\ lastWriter[ag[t].u] = t)
       => ag[t].res = ag[t].prev[1].arg

\* C9 happens: a Check right after the goroutine's own Update of a Result
\* that is not the zero Result has read that Result.
C9_Witness ==
    \E t \in Threads :
       /\ t \in Checked
       /\ ag[t].op = "Check"
       /\ ag[t].prev # <<>>
       /\ lastWriter[ag[t].u] = t
       /\ ag[t].prev[1].arg = [err |-> NilError, msg |-> "disk full"]
       /\ ag[t].res = ag[t].prev[1].arg

\* The step in which the Check a caller makes on wrapper p completes its read.
CheckReads(t, p) ==
    /\ ag[t].op = "Check"
    /\ ag[t].u = p
    /\ ag[t].pc = "u_read_msg"
    /\ ag'[t].pc = "u_unlock"

\* C6 as stated: the check is not evaluated at construction; a Check that
\* reads before the first tick returns the zero Result, and a Check called
\* after a tick returns the most recent output of the check, once there is one.
C6_AfterATickCheckReturnsLastOutput ==
    [][\A t \in Threads, p \in Periodics :
          CheckReads(t, p) =>
             /\ ~ticked[p] => lastOut[p] = <<>> /\ ag'[t].res = ZeroResult
             /\ (ag[t].afterTick /\ lastOut[p] # <<>>) => lastOut[p] = <<ag'[t].res>>]_vars

\* C6 as amended: the check is not evaluated before the first tick; until the
\* Result of a first evaluation has been stored Check returns the zero
\* Result, and from then on it returns the Result stored last, which is the
\* most recent output of the check whenever the goroutine is not between the
\* end of an evaluation and the end of its Update.
C6_CheckReturnsLastStoredOutput ==
    /\ [](\A p \in Periodics :
            /\ ~ticked[p] => lastOut[p] = <<>>
            /\ lastOut[p] = <<>> => uStatus[p] = ZeroResult /\ lastStored[p] = ZeroResult
            /\ (lastOut[p] # <<>> /\ ag[p].pc \in {"recv", "eval"})
                  => lastStored[p] = lastOut[p][1])
    /\ [][\A t \in Threads, p \in Periodics :
             CheckReads(t, p) => ag'[t].res = lastStored[p]]_vars

\* C6 happens: after a tick, a Check of the wrapper has read an output of the
\* check that is not the zero Result.
C6_Witness ==
    \E t \in Threads, p \in Periodics :
       /\ t \in Checked
       /\ ag[t].u = p
       /\ ticked[p]
       /\ lastOut[p] = <<ag[t].res>>
       /\ ag[t].res # ZeroResult

C8_FailuresAreData ==
    \A t \in Returning :
       \A k \in registered :
          /\ k \in DOMAIN ag[t].checks
          /\ k \in DOMAIN ag[t].called
          /\ ag[t].called[k].check = registeredChecks[k]
          /\ ag[t].checks[k].healthy = (ag[t].called[k].res.err = NilError)
          /\ ag[t].checks[k].message = ag[t].called[k].res.msg

\* C8 happens: a snapshot with a failed entry and a healthy entry is about to
\* be returned.
C8_Witness ==
    \E t \in Returning :
       \E j, k \in DOMAIN ag[t].checks :
          /\ ag[t].called[j].res.err # NilError
          /\ ~ag[t].checks[j].healthy
          /\ ag[t].checks[j].message = "disk full"
          /\ ag[t].checks[k].healthy

\* The requests with another method than GET that StatusHandler has answered.
Refused == {t \in Threads : /\ ag[t].pc = "done"
                            /\ ag[t].op = "StatusHandler"
                            /\ ag[t].method # "GET"}

\* C13: a request whose method is not GET is answered 404 whatever is
\* registered, and no checker is evaluated for it: the handler has not taken
\* the registry's lock, has called no checker and has built no snapshot.
C13_NonGetIsNotFound ==
    \A t \in Refused :
       /\ ag[t].resp.written
       /\ ag[t].resp.code = StatusNotFound
       /\ ag[t].called = <<>>
       /\ ag[t].checks = <<>>
       /\ t \notin muReaders

\* C13 happens: a POST has been answered while two names are registered, one
\* of them bound to a check that panics when it is called.
C13_Witness ==
    \E t \in Refused :
       /\ Cardinality(registered) = 2
       /\ \E n \in registered : registeredChecks[n] = "fnPanic"
       /\ ag[t].resp.code = StatusNotFound

\* The goroutines between RLock and RUnlock of CheckStatus: ranging over the
\* mapping, inside a checker's Check, or about to return.
Iterating ==
    {t \in Threads : /\ ag[t].op \in {"CheckStatus", "StatusHandler"}
                     /\ ag[t].pc \in {"cs_range", "cs_store", "cs_return", "u_lock",
                                      "u_read_err", "u_read_msg", "u_unlock"}}

\* C14: the mapping is under a reader/writer lock.  The holders of the read
\* lock are the CheckStatus calls between RLock and RUnlock, and one of them
\* never keeps another from taking it; at most one Register is in its
\* critical section, it is the holder of the write lock, and then nobody
\* holds the read lock; and the mapping changes only in a step of the Register
\* in its critical section, with no CheckStatus between RLock and RUnlock:
\* a Register begun while a CheckStatus waits for a checker changes nothing
\* before that CheckStatus has released the lock.
C14_ReadersShareWritersExclude ==
    /\ [](/\ muReaders = Iterating
          /\ Cardinality(Writing) <= 1
          /\ Writing # {} => muReaders = {} /\ Writing = {muWriter}
          /\ \A t \in Threads :
                (ag[t].pc = "cs_rlock" /\ muWriter = NoWriter)
                   => ENABLED CheckStatusRLock(t))
    /\ [][registeredChecks' # registeredChecks
             => /\ Iterating = {}
                /\ \E w \in Writing :
                      /\ muWriter = w
                      /\ ag'[w].pc # ag[w].pc
                      /\ \A n \in Names \ {ag[w].name} :
                            registeredChecks'[n] = registeredChecks[n]]_vars

\* C14 happens: a Register of a new name waits for the lock while a
\* CheckStatus is inside the Check of a registered updater.
C14_Witness ==
    \E t \in Iterating, w \in Threads :
       /\ ag[t].pc = "u_read_err"
       /\ t \in muReaders
       /\ ag[w].pc = "reg_wait"
       /\ ag[w].name \notin Keys

\* C19: a Register that panics on a bound name has released the write lock
\* when the panic reaches its caller: the lock is held or awaited only by a
\* Register in flight, and a call begun by a goroutine that has recovered
\* from such a panic is granted the lock as soon as no other call in flight
\* holds or awaits it, so it is not blocked by what the panic left behind.
C19_PanickingRegisterReleasesLock ==
    /\ \A t \in Threads :
          ag[t].pc = "panicked" => muWriter # t /\ t \notin muReaders
    /\ muWriter # NoWriter => muWriter \in Registering
    /\ \A t \in Threads :
          ag[t].recovered =>
             /\ (ag[t].pc = "reg_lock" /\ Registering = {t})
                   => ENABLED RegisterLock(t)
             /\ (ag[t].pc = "reg_wait" /\ Iterating = {})
                   => ENABLED RegisterWait(t)
             /\ (ag[t].pc = "cs_rlock" /\ Registering = {})
                   => ENABLED CheckStatusRLock(t)

\* C19 happens: a goroutine whose Register panicked on a bound name has
\* recovered, and its next Register, of a fresh name, has returned normally
\* with the name bound.
C19_Witness ==
    \E t \in Threads :
       /\ ag[t].recovered
       /\ ag[t].op = "Register"
       /\ ag[t].pc = "done"
       /\ ag[t].name \in registered
       /\ registeredChecks[ag[t].name] = ag[t].check
       /\ Cardinality(registered) = 2

\* The calls of statusResponse that have returned.
Responded == {t \in Threads : ag[t].pc = "done" /\ ag[t].op = "statusResponse"}

\* C12: when encoding the Status fails and encoding the error body succeeds,
\* the response has status 500 instead of the status computed, the JSON
\* content type, and the fixed body with server_error "Could not parse error
\* message" and its length; when encoding the error body fails too, nothing
\* is written: no header, no status code, no body.  (When encoding the Status
\* succeeds the computed status and the encoded Status are written.)
C12_EncodingFailureFallback ==
    \A t \in Responded :
       LET resp == ag[t].resp IN
         /\ (ag[t].enc = <<TRUE, FALSE>>) =>
               /\ resp.written
               /\ resp.code = StatusInternalServerError
               /\ resp.contentType = "application/json; charset=utf-8"
               /\ resp.body = "{\"server_error\":\"Could not parse error message\"}"
               /\ resp.contentLength = Len(resp.body)
         /\ (ag[t].enc = <<TRUE, TRUE>>) =>
               /\ ~resp.written
               /\ resp.code = 0
               /\ resp.contentType = ""
               /\ resp.body = ""
         /\ (ag[t].enc = <<FALSE, FALSE>>) =>
               /\ resp.written
               /\ resp.code = ag[t].status
               /\ resp.body = JsonMarshalStatus(ag[t].checks).p

\* C12 happens: statusResponse was called with 503 and a failing entry, the
\* encoding of the Status failed, and the answer is the 500 with the fixed
\* body.
C12_Witness ==
    \E t \in Responded :
       /\ ag[t].status = StatusServiceUnavailable
       /\ \E k \in DOMAIN ag[t].checks : ~ag[t].checks[k].healthy
       /\ ag[t].enc = <<TRUE, FALSE>>
       /\ ag[t].resp.code = StatusInternalServerError
       /\ ag[t].resp.written

\* The wrapper's goroutine has evaluated the check and not yet stored the
\* Result.
Storing(p) == ag[p].pc \in {"u_lock", "u_write_err", "u_write_msg"}

\* C18: the one goroutine of a wrapper runs its evaluations one after the
\* other.  It is the only writer of the wrapper's updater; an evaluation
\* starts only by taking a tick while the goroutine waits for one, when the
\* Result of the evaluation before it is stored; a tick that comes while the
\* goroutine evaluates or stores only fills the ticker's buffer and starts
\* nothing; and every store writes the Result of the last evaluation, never
\* that of an earlier one.
C18_EvaluationsDoNotOverlap ==
    /\ [](\A p \in Periodics :
            /\ lastWriter[p] \in {NoWriter, p}
            /\ Storing(p) => lastOut[p] = <<ag[p].arg>>
            /\ (ag[p].pc \in {"recv", "eval"} /\ lastOut[p] # <<>>)
                  => lastStored[p] = lastOut[p][1])
    /\ [][\A p \in Periodics :
             /\ (ag'[p].pc = "eval" /\ ag[p].pc # "eval")
                   => ag[p].pc = "recv" /\ tickC[p] /\ ~tickC'[p]
             /\ (tickC'[p] /\ ~tickC[p])
                   => ag'[p] = ag[p] /\ lastOut' = lastOut /\ uStatus' = uStatus
             /\ lastOut'[p] # lastOut[p] => ag[p].pc = "eval" /\ Storing(p)'
             /\ (ag[p].pc = "u_write_msg" /\ ag'[p].pc # "u_write_msg")
                   => lastStored'[p] = lastOut[p][1] /\ uStatus'[p] = lastOut[p][1]]_vars

\* C18 happens: while the goroutine stores the Result of its second
\* evaluation, which differs from the first one's, the next tick has come
\* and waits in the ticker's buffer.
C18_Witness ==
    \E p \in Periodics :
       /\ ag[p].pc = "u_write_msg"
       /\ tickC[p]
       /\ lastWriter[p] = p
       /\ lastStored[p] # ag[p].arg
       /\ lastOut[p] = <<ag[p].arg>>

\* The step in which an evaluation of the check wrapped by p returns.
EvalReturns(p) == ag[p].pc = "eval" /\ ag'[p].pc # "eval"

\* C16: with a ticker that keeps firing and a check that returns, every tick
\* delivered is received, every tick received leads to the state where the
\* goroutine waits again with the Result of that evaluation stored, and a
\* Check that waits for the updater returns; and if the wrapper is started
\* and from some point on every evaluation returns R, then from some point on
\* the updater holds R for ever, which is what Check returns.
C16_TicksLeadToStoredResults ==
    /\ \A p \in Periodics :
          /\ tickC[p] ~> (ag[p].pc = "eval")
          /\ (ag[p].pc = "eval")
                ~> (ag[p].pc = "recv" /\ lastOut[p] = <<lastStored[p]>>)
          /\ \A R \in Results :
                (/\ <>(ag[p].pc # "unstarted")
                 /\ <>[][EvalReturns(p) => lastOut'[p] = <<R>>]_vars)
                => <>[](uStatus[p] = R /\ lastStored[p] = R)
    /\ \A t \in Threads :
          (ag[t].pc = "u_lock") ~> (ag[t].pc = "done")

\* C16 happens: the goroutine has stored the Result of an evaluation, which
\* is not the zero Result, waits for the next tick, and that tick has come.
C16_Witness ==
    \E p \in Periodics :
       /\ ag[p].pc = "recv"
       /\ tickC[p]
       /\ lastWriter[p] = p
       /\ lastOut[p] = <<lastStored[p]>>
       /\ uStatus[p] = lastStored[p]
       /\ lastStored[p] # ZeroResult

\* The calls in flight.
InCall == {t \in Threads : ag[t].pc \notin Ready}

C20_WrapperOutlivesFailedRegistration ==
    /\ [](\A t \in Threads :
            ag[t].op = "RegisterPeriodicFunc" =>
               /\ ag[ag[t].check].pc # "unstarted"
               /\ wrapped[ag[t].check] \in PeriodicFuncs
               /\ ag[t].pc = "panicked" =>
                     /\ \A n \in Names : registeredChecks[n] # ag[t].check
                     /\ ENABLED (\/ TaskStep(ag[t].check)
                                 \/ UpdaterUpdateStep(ag[t].check))
               /\ ag[t].pc = "done" => registeredChecks[ag[t].name] = ag[t].check)
    /\ [][\A t \in Threads :
             (/\ ag[t].op = "RegisterPeriodicFunc"
              /\ ag[t].pc = "reg_test"
              /\ registeredChecks[ag[t].name] # NoEntry
              /\ ag'[t].pc # "reg_test")
             => /\ ag'[t].pc = "panicked"
                /\ registeredChecks' = registeredChecks
                /\ ag'[ag[t].check] = ag[ag[t].check]]_vars

\* C20 happens: RegisterPeriodicFunc has panicked on a bound name, no entry
\* holds its wrapper, and the wrapper's goroutine, which has stored the
\* Result of one evaluation, is in the next evaluation.
C20_Witness ==
    \E t \in Threads :
       /\ ag[t].op = "RegisterPeriodicFunc"
       /\ ag[t].pc = "panicked"
       /\ registeredChecks[ag[t].name] \in CheckFuncs
       /\ \A n \in Names : registeredChecks[n] # ag[t].check
       /\ ag[ag[t].check].pc = "eval"
       /\ lastWriter[ag[t].check] = ag[t].check
       /\ lastStored[ag[t].check] # ZeroResult

\* C17: the bound names only grow.  Every name whose Register has returned
\* is bound to a checker; no step removes a key of the mapping or a
\* registered name, no step changes the checker a name is bound to, and the
\* Register that returns leaves its name bound to the checker it was given.
C17_BindingsArePermanent ==
    /\ [](\A n \in registered : registeredChecks[n] \in Checkers)
    /\ [][\A n \in Names :
             /\ registeredChecks[n] # NoEntry => registeredChecks'[n] # NoEntry
             /\ registeredChecks[n] \in Checkers
                   => registeredChecks'[n] = registeredChecks[n]
             /\ n \in registered => n \in registered']_vars
    /\ [][\A t \in Threads :
             (ag[t].pc = "reg_unlock" /\ ag'[t].pc = "done")
                => /\ registeredChecks'[ag[t].name] = ag[t].check
                   /\ ag[t].name \in registered']_vars

\* C17 happens: a name is still bound to the checker it was registered with
\* after a Register of that name with another checker has panicked, while a
\* CheckStatus is about to return a Status with that name.
C17_Witness ==
    \E t \in Threads, r \in Returning :
       /\ ag[t].pc = "panicked"
       /\ ag[t].op = "Register"
       /\ ag[t].name \in registered
       /\ registeredChecks[ag[t].name] \in Checkers \ {ag[t].check}
       /\ ag[t].name \in DOMAIN ag[r].checks
       /\ ag[r].called[ag[t].name].check = registeredChecks[ag[t].name]

\* C10 as stated: a panic of a registered checker does not leave CheckStatus:
\* no call of CheckStatus ends in a panic.
C10_CheckerPanicsDoNotEscape ==
    \A t \in Threads : ag[t].op = "CheckStatus" => ag[t].pc # "panicked"

====
